---------------------------- MODULE Spec2Model ----------------------------
(***************************************************************************)
(* A model of the agent backend: the text chunker (textUtils), the session *)
(* memory (MemoryService), the retrieval index (RAGService), the plugin    *)
(* dispatcher (PluginService), the completion client (LLMService) and the  *)
(* orchestrator (AgentService and the message endpoint of server.ts).      *)
(* Each component has its own specification; the variables of the other    *)
(* components are idle in it.                                              *)
(***************************************************************************)
EXTENDS Integers, Sequences, FiniteSets, TLC

VARIABLES
  \* ---- text chunker: one call of chunkText with the fixed_size strategy
  text,            \* the text argument, a sequence of characters
  chunkCfg,        \* config: max_chunk_size, chunk_overlap, sentences
  position,        \* chunkByFixedSize: let position
  chunkIndex,      \* chunkByFixedSize: let chunkIndex
  chunks,          \* chunkByFixedSize: const chunks
  chunkPc,         \* "config" | "call" | "loop" | "done" | "oom"
  \* ---- session memory
  memCfg,          \* MemoryServiceConfig: maxMessagesPerSession, summaryThreshold
  sessions,        \* MemoryService.sessions: session id -> optional message list
  sessionSummaries,\* MemoryService.sessionSummaries: session id -> optional summary
  stale,           \* session ids whose updated_at is older than the TTL cutoff
  \* ---- retrieval index
  ragCfg,          \* RAGServiceConfig: minSimilarityScore, cacheEmbeddings
  embeddedChunks,  \* RAGService.embeddedChunks
  documentsIndex,  \* RAGService.documentsIndex: filename -> optional document
  isInitialized,   \* RAGService.isInitialized
  initPc,          \* initialize(): "new" | "loading" | "ready" | "reloading"
  diskChunks,      \* chunks.json
  diskDocs,        \* documents.json
  ingestPc,        \* processDocuments(): "idle" | "embedding"
  ingestDoc,       \* the document whose embeddings are awaited
  ingestQueue,     \* the documents of the batch still to process
  ingestResults,   \* per document of the batch: the document, whether the
                   \* provider answered one vector per chunk, and
                   \* "pending" | "ok" | "failed"
  queryPc,         \* retrieveContent(): "idle" | "embedding"
  queryCtx,        \* the RAGContext of the last query that reached its await
  lastQuery,       \* how the last retrieveContent call went
  ragCalls,        \* the calls made so far: initialize, ingest, query
  \* ---- plugin dispatcher
  plugCfg,         \* PluginSystemConfig: enabled, max_plugins_per_request, execution_mode
  plugins,         \* PluginService.plugins, in insertion order
  piPc,            \* processInput(): "idle" | "exec" | "done"
  piSelected,      \* the names of the plugins findActivatedPlugins returned
  piRun,           \* per selected plugin: waiting, pending or settled, and why
  piTimers,        \* the indexes whose timeout timer is armed
  piExecuted,      \* the names of the plugins whose execute was called, in order
  piCall,          \* the registry as the call found it: expected selection, disabled
  piReturn,        \* the value the last processInput call resolved with
  plugOps,         \* the number of calls of the service made so far
  \* ---- orchestrator and message endpoint
  agPc,            \* processMessage(): "idle" | "plugins" | "retrieval" | "llm" | "done"
  agReq,           \* the body of the request in progress
  agLlm,           \* what generateCompletion does for this request: "ok" | "throws"
  agDispatched,    \* pluginResults
  agRetrieved,     \* ragResults.retrieved_chunks, once retrieveContent has resolved
  agPrompt,        \* systemPrompt, once built
  agStages,        \* the stages the request has run, in order
  httpResponse,    \* the status and body sent for the request
  agCalls,         \* the requests made so far
  \* ---- completion client
  llmCfg,          \* LLMProviderConfig: maxRetries
  retryCount,      \* LLMService.retryCount
  llmCalls,        \* per caller: where its generateCompletion call is, the
                   \* retries and delays of the call, the error it threw
  llmStarted       \* the generateCompletion calls made so far

chunkVars == <<text, chunkCfg, position, chunkIndex, chunks, chunkPc>>
memVars == <<memCfg, sessions, sessionSummaries, stale>>
ragVars == <<ragCfg, embeddedChunks, documentsIndex, isInitialized, initPc,
             diskChunks, diskDocs, ingestPc, ingestDoc, ingestQueue,
             ingestResults, queryPc, queryCtx, lastQuery, ragCalls>>
plugVars == <<plugCfg, plugins, piPc, piSelected, piRun, piTimers, piExecuted,
              piCall, piReturn, plugOps>>
agentVars == <<agPc, agReq, agLlm, agDispatched, agRetrieved, agPrompt, agStages,
               httpResponse, agCalls>>
llmVars == <<llmCfg, retryCount, llmCalls, llmStarted>>
vars == <<chunkVars, memVars, ragVars, plugVars, agentVars, llmVars>>

\* What a step of one component leaves alone.
nonChunkVars == <<memVars, ragVars, plugVars, agentVars, llmVars>>
nonMemVars == <<chunkVars, ragVars, plugVars, agentVars, llmVars>>
nonRagVars == <<chunkVars, memVars, plugVars, agentVars, llmVars>>
nonPlugVars == <<chunkVars, memVars, ragVars, agentVars, llmVars>>
nonLlmVars == <<chunkVars, memVars, ragVars, plugVars, agentVars>>

Min(a, b) == IF a < b THEN a ELSE b
Max(a, b) == IF a < b THEN b ELSE a

\* An optional value is a sequence of at most one element: Absent, or Some(x).
Absent == <<>>
Some(x) == <<x>>
Get(o) == o[1]

(***************************************************************************)
(* Bounds of the model.                                                    *)
(***************************************************************************)
MaxTextLen == 4
MaxChunkSize == 3
HeapChunks == 6
MaxLive == 2
MaxCfg == 1
MaxDocChunks == 2
MaxIndexChunks == 2
MaxBatch == 2
MaxInitCalls == 1
MaxIngestCalls == 1
MaxQueryCalls == 1
MaxSelect == 2
MaxPlugCalls == 2
MaxRetrieved == 2
MaxRequests == 2
MaxLlmCalls == 2

(***************************************************************************)
(* Text chunker: chunkText / chunkByFixedSize.                             *)
(***************************************************************************)
Chars == {"a", " ", "."}

Texts == UNION {[1..n -> Chars] : n \in 1..MaxTextLen}

\* String.prototype.slice(a, b) for 0 <= a, b (0-based, end exclusive).
Slice(s, a, b) == SubSeq(s, a + 1, Min(b, Len(s)))

IsSpace(c) == c = " "

RECURSIVE TrimStart(_)
TrimStart(s) ==
  IF s = <<>> THEN <<>>
  ELSE IF IsSpace(Head(s)) THEN TrimStart(Tail(s)) ELSE s

RECURSIVE TrimEnd(_)
TrimEnd(s) ==
  IF s = <<>> THEN <<>>
  ELSE IF IsSpace(s[Len(s)]) THEN TrimEnd(SubSeq(s, 1, Len(s) - 1)) ELSE s

\* String.prototype.trim
Trim(s) == TrimEnd(TrimStart(s))

\* findLastSentenceEnd: index + 1 of the last of . ! ?, or -1.
findLastSentenceEnd(s) ==
  LET ends == {i \in 1..Len(s) : s[i] \in {".", "!", "?"}}
  IN IF ends = {} THEN -1 ELSE CHOOSE i \in ends : \A j \in ends : j <= i

\* generateChunkId(sourceFilename, index); the chunker alone runs on one file.
ChunkerFile == "unknown"

\* The window end of one iteration.
EndPosition == Min(position + chunkCfg.max_chunk_size, Len(text))

\* The chunk text of one iteration, after the sentence-boundary pull-back.
ChunkTextAt ==
  LET raw == Slice(text, position, EndPosition)
      lastSentenceEnd == findLastSentenceEnd(raw)
  IN IF EndPosition < Len(text) /\ chunkCfg.sentences
          /\ 2 * lastSentenceEnd > Len(raw)
     THEN Slice(raw, 0, lastSentenceEnd)
     ELSE raw

\* The position the next iteration starts at.
NextPosition(end) ==
  IF end - chunkCfg.chunk_overlap <= 0 THEN end ELSE end - chunkCfg.chunk_overlap

ChunkInit ==
  /\ text \in Texts
  /\ chunkCfg \in {c \in [max_chunk_size : 1..MaxChunkSize,
                          chunk_overlap : 0..(MaxChunkSize - 1),
                          sentences : BOOLEAN] :
                     c.chunk_overlap < c.max_chunk_size}
  /\ position = 0
  /\ chunkIndex = 0
  /\ chunks = <<>>
  /\ chunkPc = "call"

ChunkIdle ==
  /\ text = <<"a">>
  /\ chunkCfg = [max_chunk_size |-> 1, chunk_overlap |-> 0, sentences |-> FALSE]
  /\ position = 0
  /\ chunkIndex = 0
  /\ chunks = <<>>
  /\ chunkPc = "done"

\* chunkText: empty or whitespace-only input yields no chunks; otherwise the
\* fixed_size loop is entered.
ChunkTextCall ==
  /\ chunkPc = "call"
  /\ chunkPc' = IF Len(Trim(text)) = 0 THEN "done" ELSE "loop"
  /\ UNCHANGED <<text, chunkCfg, position, chunkIndex, chunks>>
  /\ UNCHANGED nonChunkVars

\* One iteration of the while loop of chunkByFixedSize, with the test of the
\* loop condition that follows it.  A push beyond the heap aborts the process.
ChunkStep ==
  /\ chunkPc = "loop"
  /\ LET end == EndPosition
         chunkTxt == ChunkTextAt
         pushes == Len(Trim(chunkTxt)) > 0
         np == NextPosition(end)
     IN IF pushes /\ Len(chunks) >= HeapChunks
        THEN /\ chunkPc' = "oom"
             /\ UNCHANGED <<position, chunkIndex, chunks>>
        ELSE /\ chunks' = IF pushes
                          THEN Append(chunks, [id |-> <<ChunkerFile, chunkIndex>>,
                                               text |-> Trim(chunkTxt),
                                               startPosition |-> position,
                                               length |-> Len(chunkTxt)])
                          ELSE chunks
             /\ chunkIndex' = IF pushes THEN chunkIndex + 1 ELSE chunkIndex
             /\ position' = np
             /\ chunkPc' = IF np < Len(text) THEN "loop" ELSE "done"
  /\ UNCHANGED <<text, chunkCfg>>
  /\ UNCHANGED nonChunkVars

ChunkNext == ChunkTextCall \/ ChunkStep

\* The chunking configurations a caller can hand to the RAGService
\* constructor, and a document to ingest under it.
ChunkConfigInit ==
  /\ text \in Texts
  /\ chunkCfg \in [max_chunk_size : 1..MaxChunkSize,
                   chunk_overlap : 0..MaxChunkSize,
                   sentences : BOOLEAN]
  /\ position = 0
  /\ chunkIndex = 0
  /\ chunks = <<>>
  /\ chunkPc = "config"

\* new RAGService(config): the configuration is stored as it is; the first
\* processDocument then calls chunkText with it.
RagServiceConstructor ==
  /\ chunkPc = "config"
  /\ chunkPc' = "call"
  /\ UNCHANGED <<text, chunkCfg, position, chunkIndex, chunks>>
  /\ UNCHANGED nonChunkVars

ChunkConfigNext == RagServiceConstructor \/ ChunkTextCall \/ ChunkStep

(***************************************************************************)
(* Session memory: MemoryService.                                          *)
(***************************************************************************)
SessionIds == {"s1", "s2"}
Roles == {"user", "assistant"}
Contents == {"topic"}
Messages == [role : Roles, content : Contents]

MessageLists == UNION {[1..n -> Messages] : n \in 0..MaxLive}

\* Array.prototype.slice(-n) for n >= 0: -0 is 0, so slice(-0) is the whole array.
SliceLast(s, n) ==
  IF n = 0 THEN s ELSE SubSeq(s, Max(Len(s) - n, 0) + 1, Len(s))

\* Array.prototype.slice(0, -n) for n >= 0: slice(0, -0) is empty.
SliceButLast(s, n) ==
  IF n = 0 THEN <<>> ELSE SubSeq(s, 1, Max(Len(s) - n, 0))

CountRole(s, r) == Cardinality({i \in 1..Len(s) : s[i].role = r})

\* createSimpleSummary: the counts of user and assistant messages.
createSimpleSummary(msgs) ==
  IF Len(msgs) = 0 THEN [users |-> 0, assistants |-> 0, empty |-> TRUE]
  ELSE [users |-> CountRole(msgs, "user"),
        assistants |-> CountRole(msgs, "assistant"), empty |-> FALSE]

\* extractTopics: the words longer than 3 characters of the user messages, at
\* most 5 of them (every content of the model is one such word).
extractTopics(msgs) ==
  LET words == {msgs[i].content : i \in {j \in 1..Len(msgs) : msgs[j].role = "user"}}
  IN IF Cardinality(words) <= 5 THEN words
     ELSE CHOOSE w \in SUBSET words : Cardinality(w) = 5

\* updateSessionSummary, called with the session's list as it is before the trim.
updateSessionSummary(msgs, summary, topics) ==
  [summary |-> summary, message_count |-> Len(msgs), topics |-> topics]

\* manageSessionSize applied to a session's list: the new list, the new summary
\* (Absent when none is written) and whether the trim branch ran.
manageSessionSize(msgs, oldSummary) ==
  IF Len(msgs) > memCfg.maxMessagesPerSession
  THEN LET messagesToSummarize == SliceButLast(msgs, memCfg.summaryThreshold)
       IN [messages |-> SliceLast(msgs, memCfg.summaryThreshold),
           summary |-> Some(updateSessionSummary(msgs,
                          createSimpleSummary(messagesToSummarize),
                          extractTopics(messagesToSummarize))),
           trimmed |-> TRUE]
  ELSE [messages |-> msgs, summary |-> oldSummary, trimmed |-> FALSE]

NoSessions == [s \in SessionIds |-> Absent]

MemInit ==
  /\ memCfg \in [maxMessagesPerSession : 1..MaxCfg,
                 summaryThreshold : 0..(MaxCfg + 1)]
  /\ sessions = NoSessions
  /\ sessionSummaries = NoSessions
  /\ stale = {}

MemIdle ==
  /\ memCfg = [maxMessagesPerSession |-> 1, summaryThreshold |-> 1]
  /\ sessions = NoSessions
  /\ sessionSummaries = NoSessions
  /\ stale = {}

\* addMessage(sessionId, role, content): get or create the session, push the
\* message, refresh updated_at, manage the session's size.
\* An addMessage that pushes nothing.
Pushed_Nothing(sid, role, content) ==
  IF sessions[sid] = Absent THEN <<>> ELSE Get(sessions[sid])

\* The session's list after the push of addMessage, before its size is managed.
Pushed(sid, role, content) ==
  Append(IF sessions[sid] = Absent THEN <<>> ELSE Get(sessions[sid]),
         [role |-> role, content |-> content])

addMessage(sid, role, content) ==
  /\ LET pushed == Pushed(sid, role, content)
         m == manageSessionSize(pushed, sessionSummaries[sid])
     IN /\ Len(pushed) <= MaxLive
        /\ sessions' = [sessions EXCEPT ![sid] = Some(m.messages)]
        /\ sessionSummaries' = [sessionSummaries EXCEPT ![sid] = m.summary]
  /\ stale' = stale \ {sid}
  /\ UNCHANGED memCfg
  /\ UNCHANGED nonMemVars

\* Time passes: the session's updated_at falls behind the TTL cutoff.
Expire(sid) ==
  /\ sessions[sid] # Absent
  /\ sid \notin stale
  /\ stale' = stale \cup {sid}
  /\ UNCHANGED <<memCfg, sessions, sessionSummaries>>
  /\ UNCHANGED nonMemVars

\* cleanupExpiredSessions: the hourly sweep.
cleanupExpiredSessions ==
  /\ sessions' = [s \in SessionIds |-> IF s \in stale THEN Absent ELSE sessions[s]]
  /\ sessionSummaries' =
       [s \in SessionIds |-> IF s \in stale THEN Absent ELSE sessionSummaries[s]]
  /\ stale' = {}
  /\ UNCHANGED memCfg
  /\ UNCHANGED nonMemVars

clearSession(sid) ==
  /\ sessions' = [sessions EXCEPT ![sid] = Absent]
  /\ sessionSummaries' = [sessionSummaries EXCEPT ![sid] = Absent]
  /\ stale' = stale \ {sid}
  /\ UNCHANGED memCfg
  /\ UNCHANGED nonMemVars

clearAllSessions ==
  /\ sessions' = NoSessions
  /\ sessionSummaries' = NoSessions
  /\ stale' = {}
  /\ UNCHANGED memCfg
  /\ UNCHANGED nonMemVars

\* importSession(sessionData): the session is stored as given, with the
\* updated_at of the data (fresh or older than the TTL cutoff).
importSession(sid, msgs, old) ==
  /\ sessions' = [sessions EXCEPT ![sid] = Some(msgs)]
  /\ stale' = IF old THEN stale \cup {sid} ELSE stale \ {sid}
  /\ UNCHANGED <<memCfg, sessionSummaries>>
  /\ UNCHANGED nonMemVars

MemNext ==
  \/ \E sid \in SessionIds, role \in Roles, content \in Contents :
       addMessage(sid, role, content)
  \/ \E sid \in SessionIds : Expire(sid)
  \/ cleanupExpiredSessions
  \/ \E sid \in SessionIds : clearSession(sid)
  \/ clearAllSessions
  \/ \E sid \in SessionIds, msgs \in MessageLists, old \in BOOLEAN :
       importSession(sid, msgs, old)

(***************************************************************************)
(* Vector math: cosineSimilarity, validateVector, findSimilarChunks.       *)
(* The vectors of the model have integer norms, so every cosine is a       *)
(* rational number; scores are kept in hundredths.  The two numbers that   *)
(* are not finite are values of their own.                                 *)
(***************************************************************************)
Infinity == 1000
NaN == 1001

IsFinite(v) == \A i \in 1..Len(v) : v[i] \notin {Infinity, NaN}

RECURSIVE SumSq(_)
SumSq(v) == IF v = <<>> THEN 0 ELSE Head(v) * Head(v) + SumSq(Tail(v))

RECURSIVE Dot(_, _)
Dot(a, b) == IF a = <<>> THEN 0 ELSE Head(a) * Head(b) + Dot(Tail(a), Tail(b))

\* Math.sqrt on the sums of squares that occur (all are perfect squares).
Sqrt(n) == CHOOSE r \in 0..n : r * r = n

\* cosineSimilarity in hundredths; it throws when the lengths differ or the
\* vectors are empty.  With a component that is not finite the magnitude of
\* that vector is Infinity or NaN, never 0, and the quotient is NaN unless the
\* other vector has magnitude 0.
cosineSimilarity(a, b) ==
  IF Len(a) # Len(b) \/ Len(a) = 0 THEN [threw |-> TRUE, nan |-> FALSE, value |-> 0]
  ELSE IF IsFinite(a) /\ IsFinite(b)
  THEN LET magnitudeA == Sqrt(SumSq(a))
           magnitudeB == Sqrt(SumSq(b))
       IN IF magnitudeA = 0 \/ magnitudeB = 0
          THEN [threw |-> FALSE, nan |-> FALSE, value |-> 0]
          ELSE [threw |-> FALSE, nan |-> FALSE,
                value |-> (100 * Dot(a, b)) \div (magnitudeA * magnitudeB)]
  ELSE IF (IsFinite(a) /\ SumSq(a) = 0) \/ (IsFinite(b) /\ SumSq(b) = 0)
  THEN [threw |-> FALSE, nan |-> FALSE, value |-> 0]
  ELSE [threw |-> FALSE, nan |-> TRUE, value |-> 0]

\* validateVector(vector): it throws on an empty vector and on a NaN element;
\* Infinity is a number and passes.
validateVector(v) == Len(v) > 0 /\ \A i \in 1..Len(v) : v[i] # NaN

\* Array.prototype.sort with (a, b) => b.similarity_score - a.similarity_score:
\* a stable sort by descending score (insertion after the last element whose
\* score is not lower).
RECURSIVE InsertByScore(_, _)
InsertByScore(sorted, r) ==
  IF sorted = <<>> THEN <<r>>
  ELSE IF Head(sorted).similarity_score >= r.similarity_score
       THEN <<Head(sorted)>> \o InsertByScore(Tail(sorted), r)
       ELSE <<r>> \o sorted

RECURSIVE SortByScore(_)
SortByScore(rs) ==
  IF rs = <<>> THEN <<>>
  ELSE InsertByScore(SortByScore(SubSeq(rs, 1, Len(rs) - 1)), rs[Len(rs)])

\* The candidates of findSimilarChunks: the chunks whose similarity can be
\* computed and reaches the threshold, in index order (a chunk whose similarity
\* computation throws is logged and left out; NaN >= minSimilarity is false).
RECURSIVE Similarities(_, _, _)
Similarities(queryVector, cs, minSimilarity) ==
  IF cs = <<>> THEN <<>>
  ELSE LET sim == cosineSimilarity(queryVector, Head(cs).embedding)
           rest == Similarities(queryVector, Tail(cs), minSimilarity)
       IN IF ~sim.threw /\ ~sim.nan /\ sim.value >= minSimilarity
          THEN <<[chunk |-> Head(cs), similarity_score |-> sim.value, rank |-> 0]>>
                 \o rest
          ELSE rest

\* findSimilarChunks(queryVector, chunks, topK, minSimilarity).
findSimilarChunks(queryVector, cs, topK, minSimilarity) ==
  IF Len(queryVector) = 0 THEN [threw |-> TRUE, results |-> <<>>]
  ELSE IF Len(cs) = 0 THEN [threw |-> FALSE, results |-> <<>>]
  ELSE IF topK <= 0 THEN [threw |-> TRUE, results |-> <<>>]
  ELSE LET sorted == SortByScore(Similarities(queryVector, cs, minSimilarity))
           top == SubSeq(sorted, 1, Min(topK, Len(sorted)))
       IN [threw |-> FALSE,
           results |-> [i \in 1..Len(top) |-> [top[i] EXCEPT !.rank = i]]]

(***************************************************************************)
(* Retrieval index: RAGService.                                            *)
(***************************************************************************)
Files == {"a.md", "a.txt"}

\* generateChunkId: the filename without its extension, and the ordinal.
Basename(f) == CASE f = "a.md" -> "a" [] f = "a.txt" -> "a" [] OTHER -> f

generateChunkId(f, index) == <<Basename(f), index>>

\* A document of a batch: its filename and the number of chunks chunkText
\* makes of its content.
Docs == [filename : Files, n : 0..MaxDocChunks]
Batches == UNION {[1..k -> Docs] : k \in 1..MaxBatch}
NoDoc == [filename |-> "a.md", n |-> 0]

\* The chunks chunkText returns for a document, in order.
DocChunks(d) ==
  [i \in 1..d.n |-> [id |-> generateChunkId(d.filename, i - 1),
                     text |-> <<d.n, i>>]]

\* The embedding model is a function of the text: the vector of the chunk
\* text <<n, i>> and of the query texts.
ChunkEmbedding(t) ==
  IF t[2] = 1 THEN (IF t[1] = 1 THEN <<1, 0>> ELSE <<0, 1>>) ELSE <<3, 4>>

QueryEmbedding(q) == IF q = "q1" THEN <<1, 0>> ELSE <<3, 4>>

RECURSIVE Embeddings(_, _)
Embeddings(vs, skipped) ==
  IF vs = <<>> THEN <<>>
  ELSE (IF Len(vs) \in skipped THEN <<>> ELSE <<Head(vs)>>)
         \o Embeddings(Tail(vs), skipped)

\* What generateEmbeddings answers for texts whose vectors are vs: it throws,
\* or it returns the vectors in order; the Gemini client leaves out a text for
\* which the provider returns no values.
EmbedAnswers(vs) ==
  {[threw |-> TRUE, vectors |-> <<>>]}
    \cup {[threw |-> FALSE, vectors |-> Embeddings(vs, skipped)] :
            skipped \in SUBSET (1..Len(vs))}

ChunkVectors(cs) == [i \in 1..Len(cs) |-> ChunkEmbedding(cs[i].text)]

\* A loop that makes the first chunk of a document visible and stops.
PushEmbedded_FirstOnly(index, f, cs, embeddings) ==
  IF cs = <<>> \/ embeddings = <<>> THEN [threw |-> FALSE, chunks |-> index]
  ELSE [threw |-> FALSE,
        chunks |-> Append(index, [id |-> Head(cs).id, text |-> Head(cs).text,
                                  embedding |-> Head(embeddings),
                                  source |-> [filename |-> f]])]

\* The loop of processDocument over the chunks (lines 257-287): chunk i is
\* pushed with embeddings[i]; reading the length of a missing embedding throws.
RECURSIVE PushEmbedded(_, _, _, _)
PushEmbedded(index, f, cs, embeddings) ==
  IF cs = <<>> THEN [threw |-> FALSE, chunks |-> index]
  ELSE IF embeddings = <<>> THEN [threw |-> TRUE, chunks |-> index]
  ELSE PushEmbedded(Append(index, [id |-> Head(cs).id, text |-> Head(cs).text,
                                   embedding |-> Head(embeddings),
                                   source |-> [filename |-> f]]),
                    f, Tail(cs), Tail(embeddings))

\* processDocument from the return of generateEmbeddings on: the new index, the
\* new documents map and whether the document was processed or threw.
processDocument(index, docs, d, answer) ==
  IF answer.threw THEN [ok |-> FALSE, chunks |-> index, docs |-> docs]
  ELSE LET pushed == PushEmbedded(index, d.filename, DocChunks(d), answer.vectors)
       IN IF pushed.threw
          THEN [ok |-> FALSE, chunks |-> pushed.chunks, docs |-> docs]
          ELSE [ok |-> TRUE, chunks |-> pushed.chunks,
                docs |-> [docs EXCEPT ![d.filename] =
                            Some([filename |-> d.filename, chunk_count |-> d.n])]]

CountFile(index, f) == Cardinality({i \in 1..Len(index) : index[i].source.filename = f})

NoDocs == [f \in Files |-> Absent]
Missing == [state |-> "missing", chunks |-> <<>>, docs |-> NoDocs]
Corrupt == [state |-> "corrupt", chunks |-> <<>>, docs |-> NoDocs]
Saved(index, docs) == [state |-> "ok", chunks |-> index, docs |-> docs]

\* An index a previous run of the service saved: empty, or one document.
SavedIndexes ==
  {[chunks |-> <<>>, docs |-> NoDocs]}
    \cup {LET r == processDocument(<<>>, NoDocs, d,
                     [threw |-> FALSE,
                      vectors |-> ChunkVectors(DocChunks(d))])
          IN [chunks |-> r.chunks, docs |-> r.docs] :
            d \in {[filename |-> "a.md", n |-> 1]}}

NoQuery == [status |-> "none", initDone |-> FALSE, embedIssued |-> FALSE,
            embedding |-> <<>>, results |-> <<>>]
NoCtx == [query |-> "q1", top_k |-> 1, min_similarity_score |-> Absent,
          filenames |-> {}]

NoCalls == [init |-> 0, ingest |-> 0, query |-> 0]

\* The chunks.json and documents.json a start can find.
RagInit ==
  /\ ragCfg \in [minSimilarityScore : {30}, cacheEmbeddings : BOOLEAN]
  /\ embeddedChunks = <<>>
  /\ documentsIndex = NoDocs
  /\ isInitialized = FALSE
  /\ initPc = "new"
  /\ \E saved \in SavedIndexes :
       /\ diskChunks \in {Missing, Corrupt, Saved(saved.chunks, NoDocs)}
       /\ diskDocs \in {Missing, Corrupt, Saved(<<>>, saved.docs)}
  /\ ingestPc = "idle"
  /\ ingestDoc = NoDoc
  /\ ingestQueue = <<>>
  /\ ingestResults = <<>>
  /\ queryPc = "idle"
  /\ queryCtx = NoCtx
  /\ lastQuery = NoQuery
  /\ ragCalls = NoCalls

RagIdle ==
  /\ ragCfg = [minSimilarityScore |-> 30, cacheEmbeddings |-> FALSE]
  /\ embeddedChunks = <<>>
  /\ documentsIndex = NoDocs
  /\ isInitialized = FALSE
  /\ initPc = "new"
  /\ diskChunks = Missing
  /\ diskDocs = Missing
  /\ ingestPc = "idle"
  /\ ingestDoc = NoDoc
  /\ ingestQueue = <<>>
  /\ ingestResults = <<>>
  /\ queryPc = "idle"
  /\ queryCtx = NoCtx
  /\ lastQuery = NoQuery
  /\ ragCalls = NoCalls

\* loadExistingData: each cache file that exists is read; one that cannot be
\* parsed leaves its part of the index empty.
LoadedChunks ==
  CASE diskChunks.state = "missing" -> embeddedChunks
    [] diskChunks.state = "corrupt" -> <<>>
    [] OTHER -> diskChunks.chunks

LoadedDocs ==
  CASE diskDocs.state = "missing" -> documentsIndex
    [] diskDocs.state = "corrupt" -> NoDocs
    [] OTHER -> diskDocs.docs

\* initialize() up to its await: loadExistingData has run.
InitializeCall ==
  /\ initPc \in {"new", "ready"}
  /\ ragCalls.init < MaxInitCalls
  /\ ragCalls' = [ragCalls EXCEPT !.init = @ + 1]
  /\ initPc' = IF initPc = "new" THEN "loading" ELSE "reloading"
  /\ embeddedChunks' = LoadedChunks
  /\ documentsIndex' = LoadedDocs
  /\ UNCHANGED <<ragCfg, isInitialized, diskChunks, diskDocs, ingestPc, ingestDoc,
                 ingestQueue, ingestResults, queryPc, queryCtx, lastQuery>>
  /\ UNCHANGED nonRagVars

\* initialize() after its await.
InitializedFlag_Never == FALSE
InitializedFlag == TRUE
InitializeDone ==
  /\ initPc \in {"loading", "reloading"}
  /\ initPc' = "ready"
  /\ isInitialized' = InitializedFlag
  /\ UNCHANGED <<ragCfg, embeddedChunks, documentsIndex, diskChunks, diskDocs,
                 ingestPc, ingestDoc, ingestQueue, ingestResults, queryPc,
                 queryCtx, lastQuery, ragCalls>>
  /\ UNCHANGED nonRagVars

\* saveProcessedData: the whole index is written when caching is enabled.
SavedChunks(index) == IF ragCfg.cacheEmbeddings THEN Saved(index, NoDocs) ELSE diskChunks
SavedDocs(docs) == IF ragCfg.cacheEmbeddings THEN Saved(<<>>, docs) ELSE diskDocs

\* processDocuments(documents) up to the first await: the first document is
\* cleaned and chunked and its embeddings are requested.
ProcessDocuments(batch) ==
  /\ ingestPc \in {"idle", "raised"}
  /\ ragCalls.ingest < MaxIngestCalls
  /\ ragCalls' = [ragCalls EXCEPT !.ingest = @ + 1]
  /\ Len(embeddedChunks) + batch[1].n <= MaxIndexChunks
  /\ ingestPc' = "embedding"
  /\ ingestDoc' = batch[1]
  /\ ingestQueue' = Tail(batch)
  /\ ingestResults' = [i \in 1..Len(batch) |->
                         [doc |-> batch[i], complete |-> FALSE, state |-> "pending"]]
  /\ UNCHANGED <<ragCfg, embeddedChunks, documentsIndex, isInitialized, initPc,
                 diskChunks, diskDocs, queryPc, queryCtx, lastQuery>>
  /\ UNCHANGED nonRagVars

\* generateEmbeddings returns or throws for the document in progress: the rest
\* of processDocument runs; then the loop of processDocuments goes on to the
\* next document's await, or the batch ends with saveProcessedData.  The catch
\* clause of the loop (lines 104-109) logs a document's failure and continues.
ContinueAfterFailure_Never == FALSE
ContinueAfterFailure == TRUE

EmbeddingsReturn(answer) ==
  /\ ingestPc = "embedding"
  /\ LET r == processDocument(embeddedChunks, documentsIndex, ingestDoc, answer)
         current == Len(ingestResults) - Len(ingestQueue)
     IN /\ embeddedChunks' = r.chunks
        /\ documentsIndex' = r.docs
        /\ ingestResults' =
             [ingestResults EXCEPT ![current] =
                [doc |-> ingestDoc,
                 complete |-> ~answer.threw /\ Len(answer.vectors) = ingestDoc.n,
                 state |-> IF r.ok THEN "ok" ELSE "failed"]]
        /\ IF ~r.ok /\ ~ContinueAfterFailure
           THEN /\ ingestPc' = "raised"
                /\ ingestQueue' = <<>>
                /\ UNCHANGED <<ingestDoc, diskChunks, diskDocs>>
           ELSE IF ingestQueue # <<>>
           THEN /\ Len(r.chunks) + Head(ingestQueue).n <= MaxIndexChunks
                /\ ingestDoc' = Head(ingestQueue)
                /\ ingestQueue' = Tail(ingestQueue)
                /\ UNCHANGED <<ingestPc, diskChunks, diskDocs>>
           ELSE /\ ingestPc' = "idle"
                /\ diskChunks' = SavedChunks(r.chunks)
                /\ diskDocs' = SavedDocs(r.docs)
                /\ UNCHANGED <<ingestDoc, ingestQueue>>
  /\ UNCHANGED <<ragCfg, isInitialized, initPc, queryPc, queryCtx, lastQuery,
                 ragCalls>>
  /\ UNCHANGED nonRagVars

\* The RAGContexts of the model: top_k, the optional min_similarity_score (in
\* hundredths) and the optional filename filter (empty: none).
Contexts == [query : {"q1"}, top_k : {1, 2},
             min_similarity_score : {Absent, Some(0), Some(80)},
             filenames : {{}, {"a.txt"}}]

\* a || b on a number: 0 and a missing value are falsy.
OrDefault(o, d) == IF o = Absent \/ o = Some(0) THEN d ELSE Get(o)

\* applyFilters with a filename filter.
applyFilters(results, filenames) ==
  IF filenames = {} THEN results
  ELSE LET keep == {i \in 1..Len(results) : results[i].chunk.source.filename \in filenames}
           RECURSIVE Pick(_)
           Pick(i) == IF i > Len(results) THEN <<>>
                      ELSE IF i \in keep THEN <<results[i]>> \o Pick(i + 1)
                      ELSE Pick(i + 1)
       IN Pick(1)

\* Lines 143-151 of retrieveContent: the index is ranked and cut to top_k, and
\* the filters are applied to what is left.
filteredChunks_FilterFirst(queryEmbedding, index, ctx, cfgMin) ==
  LET matching == SelectSeq(index, LAMBDA c : ctx.filenames = {}
                                       \/ c.source.filename \in ctx.filenames)
  IN findSimilarChunks(queryEmbedding, matching, ctx.top_k,
                       OrDefault(ctx.min_similarity_score, cfgMin))

filteredChunks(queryEmbedding, index, ctx, cfgMin) ==
  LET similarChunks == findSimilarChunks(queryEmbedding, index, ctx.top_k,
                         OrDefault(ctx.min_similarity_score, cfgMin))
  IN [threw |-> similarChunks.threw,
      results |-> applyFilters(similarChunks.results, ctx.filenames)]

\* The guard at the head of retrieveContent.
NotInitialized == ~isInitialized

\* A call of initialize() has returned.
InitializeCompleted == initPc \in {"ready", "reloading"}

\* retrieveContent(context) up to its await: it throws when the service is not
\* initialized, and otherwise requests the embedding of the query.
RetrieveContent(ctx) ==
  /\ queryPc = "idle"
  /\ ragCalls.query < MaxQueryCalls
  /\ ragCalls' = [ragCalls EXCEPT !.query = @ + 1]
  /\ IF NotInitialized
     THEN /\ lastQuery' = [status |-> "NotInitialized", initDone |-> InitializeCompleted,
                           embedIssued |-> FALSE, embedding |-> <<>>, results |-> <<>>]
          /\ UNCHANGED <<queryPc, queryCtx>>
     ELSE /\ queryPc' = "embedding"
          /\ queryCtx' = ctx
          /\ lastQuery' = [status |-> "pending", initDone |-> InitializeCompleted,
                           embedIssued |-> TRUE, embedding |-> <<>>, results |-> <<>>]
  /\ UNCHANGED <<ragCfg, embeddedChunks, documentsIndex, isInitialized, initPc,
                 diskChunks, diskDocs, ingestPc, ingestDoc, ingestQueue,
                 ingestResults>>
  /\ UNCHANGED nonRagVars

\* The embedding of the query returns or throws: generateQueryEmbedding checks
\* it, findSimilarChunks ranks the index, applyFilters filters the ranking.
QueryEmbeddingReturn(answer) ==
  /\ queryPc = "embedding"
  /\ queryPc' = "idle"
  /\ IF answer.threw \/ Len(answer.vectors) = 0
     THEN lastQuery' = [lastQuery EXCEPT !.status = "EmbeddingError"]
     ELSE IF ~validateVector(answer.vectors[1])
     THEN lastQuery' = [lastQuery EXCEPT !.status = "EmbeddingError",
                                         !.embedding = answer.vectors[1]]
     ELSE LET found == filteredChunks(answer.vectors[1], embeddedChunks, queryCtx,
                                      ragCfg.minSimilarityScore)
          IN IF found.threw
             THEN lastQuery' = [lastQuery EXCEPT !.status = "SearchError",
                                                 !.embedding = answer.vectors[1]]
             ELSE lastQuery' = [lastQuery EXCEPT !.status = "ok",
                                                 !.embedding = answer.vectors[1],
                                                 !.results = found.results]
  /\ UNCHANGED <<ragCfg, embeddedChunks, documentsIndex, isInitialized, initPc,
                 diskChunks, diskDocs, ingestPc, ingestDoc, ingestQueue,
                 ingestResults, queryCtx, ragCalls>>
  /\ UNCHANGED nonRagVars

RagNext ==
  \/ InitializeCall
  \/ InitializeDone
  \/ \E batch \in Batches : ProcessDocuments(batch)
  \/ \E answer \in EmbedAnswers(ChunkVectors(DocChunks(ingestDoc))) :
       EmbeddingsReturn(answer)
  \/ \E ctx \in Contexts : RetrieveContent(ctx)
  \/ \E answer \in EmbedAnswers(<<QueryEmbedding(queryCtx.query)>>) : QueryEmbeddingReturn(answer)

\* The service in operation, answering queries: the index is any index of the
\* stored vectors, among them one of another embedding dimension (a cache
\* written with another embedding model), and the provider's answer to the
\* embedding request is any vector.
StoredVectors == {<<1, 0>>, <<3, 4>>, <<1>>}

IndexChunks ==
  {[id |-> generateChunkId(f, 0), text |-> <<1, 1>>, embedding |-> v,
    source |-> [filename |-> f]] : f \in Files, v \in StoredVectors}

Indexes == UNION {[1..k -> IndexChunks] : k \in 0..MaxIndexChunks}

QueryContexts == [query : {"q1"}, top_k : 0..MaxIndexChunks,
                  min_similarity_score : {Absent, Some(0), Some(80)},
                  filenames : {{}, {"a.txt"}}]

QueryAnswers(q) ==
  EmbedAnswers(<<QueryEmbedding(q)>>)
    \cup {[threw |-> FALSE, vectors |-> <<v>>] :
            v \in {<<>>, <<1>>, <<NaN, 0>>, <<Infinity, 0>>}}

RagQueryInit ==
  /\ ragCfg = [minSimilarityScore |-> 30, cacheEmbeddings |-> FALSE]
  /\ embeddedChunks \in Indexes
  /\ documentsIndex = NoDocs
  /\ isInitialized = TRUE
  /\ initPc = "ready"
  /\ diskChunks = Missing
  /\ diskDocs = Missing
  /\ ingestPc = "idle"
  /\ ingestDoc = NoDoc
  /\ ingestQueue = <<>>
  /\ ingestResults = <<>>
  /\ queryPc = "idle"
  /\ queryCtx = NoCtx
  /\ lastQuery = NoQuery
  /\ ragCalls = NoCalls

RagQueryNext ==
  \/ \E ctx \in QueryContexts : RetrieveContent(ctx)
  \/ \E answer \in QueryAnswers(queryCtx.query) : QueryEmbeddingReturn(answer)

(***************************************************************************)
(* Plugin dispatcher: PluginService.                                       *)
(***************************************************************************)
WeatherPriority == 2
MathPriority == 3

PluginNames == {"weather", "math", "extra"}

\* The registry after the constructor: initializeDefaultPlugins has registered
\* the weather and the math plugin, both enabled.
DefaultPlugins ==
  <<[name |-> "weather", priority |-> WeatherPriority, enabled |-> TRUE],
    [name |-> "math", priority |-> MathPriority, enabled |-> TRUE]>>

\* The plugins a caller registers later.
Registrable == [name : {"extra", "math"}, priority : {MathPriority},
                enabled : BOOLEAN]

\* What shouldActivate does for each plugin on the input of a call.
Activations == [PluginNames -> {"yes", "no", "throws"}]

Registered(reg) == {reg[i].name : i \in 1..Len(reg)}

RECURSIVE Without(_, _)
Without(reg, id) ==
  IF reg = <<>> THEN <<>>
  ELSE IF Head(reg).name = id THEN Without(Tail(reg), id)
       ELSE <<Head(reg)>> \o Without(Tail(reg), id)

\* Array.prototype.sort with (a, b) => b.priority - a.priority: a stable sort
\* by descending priority.
RECURSIVE InsertByPriority(_, _)
InsertByPriority(sorted, p) ==
  IF sorted = <<>> THEN <<p>>
  ELSE IF Head(sorted).priority >= p.priority
       THEN <<Head(sorted)>> \o InsertByPriority(Tail(sorted), p)
       ELSE <<p>> \o sorted

RECURSIVE SortByPriority(_)
SortByPriority(ps) ==
  IF ps = <<>> THEN <<>>
  ELSE InsertByPriority(SortByPriority(SubSeq(ps, 1, Len(ps) - 1)), ps[Len(ps)])

\* The loop of findActivatedPlugins: a disabled plugin is passed over, one
\* whose shouldActivate throws is logged and passed over.
RECURSIVE Activated(_, _)
Activated(reg, act) ==
  IF reg = <<>> THEN <<>>
  ELSE (IF Head(reg).enabled /\ act[Head(reg).name] = "yes"
        THEN <<Head(reg)>> ELSE <<>>) \o Activated(Tail(reg), act)

\* findActivatedPlugins: the activated plugins, sorted, sliced (0, max).
findActivatedPlugins_Unsorted(reg, act) ==
  LET activated == Activated(reg, act)
  IN SubSeq(activated, 1, Min(plugCfg.max_plugins_per_request, Len(activated)))
findActivatedPlugins(reg, act) ==
  LET sorted == SortByPriority(Activated(reg, act))
  IN SubSeq(sorted, 1, Min(plugCfg.max_plugins_per_request, Len(sorted)))

PluginIds(ps) == [i \in 1..Len(ps) |-> ps[i].name]

\* The result objects of the dispatcher.
Resolved(id, success) ==
  [plugin_id |-> id, success |-> success,
   code |-> IF success THEN "none" ELSE "PLUGIN_ERROR"]

\* The catch clause around Promise.race in executePluginsSequential and
\* executePluginsParallel: the error is logged and a failure result is made.
CatchExecution_Rethrow(id) ==
  [rethrown |-> TRUE,
   result |-> [plugin_id |-> id, success |-> FALSE, code |-> "EXECUTION_ERROR"]]
CatchExecution(id) ==
  [rethrown |-> FALSE,
   result |-> [plugin_id |-> id, success |-> FALSE, code |-> "EXECUTION_ERROR"]]

\* createTimeoutPromise: the timer rejects the race when it fires.
TimeoutRejects_Never == FALSE
TimeoutRejects == TRUE

Waiting == [status |-> "waiting", result |-> Absent, cause |-> "none"]
Pending == [status |-> "pending", result |-> Absent, cause |-> "none"]
Settled(result, cause) == [status |-> "done", result |-> Some(result), cause |-> cause]

\* The value processInput resolves with.
Summary(activated, ok, failed) ==
  [total_plugins_activated |-> activated, successful_executions |-> ok,
   failed_executions |-> failed]
EmptyReturn == [plugins_executed |-> <<>>, execution_summary |-> Summary(0, 0, 0)]
CatchReturn == [plugins_executed |-> <<>>, execution_summary |-> Summary(0, 0, 1)]
Return(run) ==
  LET results == [i \in 1..Len(run) |-> Get(run[i].result)]
      ok == Cardinality({i \in 1..Len(run) : results[i].success})
  IN [plugins_executed |-> results,
      execution_summary |-> Summary(Len(run), ok, Len(run) - ok)]

\* The selection the dispatcher's contract describes, for a registry and the
\* activations of a call: the enabled plugins whose predicate is true, ranked
\* by descending priority and then by registration order; the first max.
ExpectedSelection(reg, act) ==
  LET eligible == {i \in 1..Len(reg) : reg[i].enabled /\ act[reg[i].name] = "yes"}
      Before(j, i) == \/ reg[j].priority > reg[i].priority
                      \/ (reg[j].priority = reg[i].priority /\ j < i)
      Rank(i) == Cardinality({j \in eligible : Before(j, i)}) + 1
      n == Min(plugCfg.max_plugins_per_request, Cardinality(eligible))
  IN [k \in 1..n |-> reg[CHOOSE i \in eligible : Rank(i) = k].name]

NoCall == [expected |-> <<>>, activated |-> {}, disabled |-> {}, throwing |-> {},
           syncThrow |-> {}]

PlugInit ==
  /\ plugCfg \in [enabled : BOOLEAN, max_plugins_per_request : 0..MaxSelect,
                  execution_mode : {"sequential", "parallel"}]
  /\ plugins = DefaultPlugins
  /\ piPc = "idle"
  /\ piSelected = <<>>
  /\ piRun = <<>>
  /\ piTimers = {}
  /\ piExecuted = <<>>
  /\ piCall = NoCall
  /\ piReturn = EmptyReturn
  /\ plugOps = 0

PlugIdle ==
  /\ plugCfg = [enabled |-> TRUE, max_plugins_per_request |-> 0,
                execution_mode |-> "sequential"]
  /\ plugins = DefaultPlugins
  /\ piPc = "idle"
  /\ piSelected = <<>>
  /\ piRun = <<>>
  /\ piTimers = {}
  /\ piExecuted = <<>>
  /\ piCall = NoCall
  /\ piReturn = EmptyReturn
  /\ plugOps = 0

dispatchVars == <<piPc, piSelected, piRun, piTimers, piExecuted, piCall, piReturn>>

registerPlugin(p) ==
  /\ plugOps < MaxPlugCalls
  /\ plugOps' = plugOps + 1
  /\ plugins' = IF p.name \in Registered(plugins) THEN plugins ELSE Append(plugins, p)
  /\ UNCHANGED <<plugCfg, dispatchVars>>
  /\ UNCHANGED nonPlugVars

unregisterPlugin(id) ==
  /\ plugOps < MaxPlugCalls
  /\ plugOps' = plugOps + 1
  /\ plugins' = Without(plugins, id)
  /\ UNCHANGED <<plugCfg, dispatchVars>>
  /\ UNCHANGED nonPlugVars

setPluginEnabled(id, enabled) ==
  /\ plugOps < MaxPlugCalls
  /\ plugOps' = plugOps + 1
  /\ plugins' = [i \in 1..Len(plugins) |->
                   IF plugins[i].name = id
                   THEN [plugins[i] EXCEPT !.enabled = enabled] ELSE plugins[i]]
  /\ UNCHANGED <<plugCfg, dispatchVars>>
  /\ UNCHANGED nonPlugVars

\* The call of plugin.execute for the plugin at index k of the selection sel
\* and the arming of its timer: an execute that throws at once is caught
\* before a timer is made.
Launch(sel, st, k, syncThrow) ==
  IF sel[k] \in syncThrow
  THEN [run |-> [st.run EXCEPT ![k] = Settled(CatchExecution(sel[k]).result, "threw")],
        timers |-> st.timers,
        executed |-> Append(st.executed, sel[k]),
        rethrown |-> st.rethrown \/ CatchExecution(sel[k]).rethrown]
  ELSE [run |-> [st.run EXCEPT ![k] = Pending],
        timers |-> st.timers \cup {k},
        executed |-> Append(st.executed, sel[k]),
        rethrown |-> st.rethrown]

\* executePluginsSequential from the plugin at index k on, up to its next await.
RECURSIVE RunSequential(_, _, _, _)
RunSequential(sel, st, k, syncThrow) ==
  IF k > Len(sel) \/ st.rethrown THEN st
  ELSE LET next == Launch(sel, st, k, syncThrow)
       IN IF next.run[k].status = "pending" THEN next
          ELSE RunSequential(sel, next, k + 1, syncThrow)

\* A parallel mode that waits for each plugin before it starts the next.
RunParallel_OneAtATime(sel, st, k, syncThrow) == RunSequential(sel, st, k, syncThrow)

\* executePluginsParallel: plugins.map starts every plugin.
RECURSIVE RunParallel(_, _, _, _)
RunParallel(sel, st, k, syncThrow) ==
  IF k > Len(sel) THEN st
  ELSE RunParallel(sel, Launch(sel, st, k, syncThrow), k + 1, syncThrow)

\* executePlugins: the mode is read when the execution starts.
executePlugins(sel, st, syncThrow) ==
  IF plugCfg.execution_mode = "parallel"
  THEN RunParallel(sel, st, 1, syncThrow)
  ELSE RunSequential(sel, st, 1, syncThrow)

AllSettled(run) == \A i \in 1..Len(run) : run[i].status = "done"

\* The rest of processInput once the executions stand as st: it goes on
\* waiting, or it returns the results, or its catch clause returns.
Continue(st) ==
  /\ piRun' = st.run
  /\ piTimers' = st.timers
  /\ piExecuted' = st.executed
  /\ IF st.rethrown
     THEN piPc' = "done" /\ piReturn' = CatchReturn
     ELSE IF AllSettled(st.run)
          THEN piPc' = "done" /\ piReturn' = Return(st.run)
          ELSE piPc' = "exec" /\ UNCHANGED piReturn

\* What follows the settling of the plugin at index k: in sequential mode the
\* loop goes on to the next plugin.
AfterSettled(run, timers, k, rethrown) ==
  LET st == [run |-> run, timers |-> timers, executed |-> piExecuted,
             rethrown |-> rethrown]
  IN IF plugCfg.execution_mode = "parallel" THEN st
     ELSE RunSequential(piSelected, st, k + 1, piCall.syncThrow)

\* processInput(input, context) up to its first wait for a plugin.  The input
\* decides what shouldActivate does for each registered plugin (act) and which
\* of the selected plugins throw from execute before returning a promise.
ProcessInput(act, syncThrow) ==
  /\ piPc \in {"idle", "done"}
  /\ \A id \in PluginNames \ Registered(plugins) : act[id] = "no"
  /\ plugOps < MaxPlugCalls
  /\ plugOps' = plugOps + 1
  /\ piCall' = [expected |-> ExpectedSelection(plugins, act),
                activated |-> {plugins[i].name : i \in {j \in 1..Len(plugins) :
                                 plugins[j].enabled /\ act[plugins[j].name] = "yes"}},
                disabled |-> {plugins[i].name : i \in {j \in 1..Len(plugins) :
                                                        ~plugins[j].enabled}},
                throwing |-> {id \in Registered(plugins) : act[id] = "throws"},
                syncThrow |-> syncThrow]
  /\ LET activatedPlugins ==
           IF plugCfg.enabled THEN PluginIds(findActivatedPlugins(plugins, act))
           ELSE <<>>
         st == [run |-> [i \in 1..Len(activatedPlugins) |-> Waiting],
                timers |-> {}, executed |-> <<>>, rethrown |-> FALSE]
     IN /\ syncThrow \subseteq {activatedPlugins[i] : i \in 1..Len(activatedPlugins)}
        /\ piSelected' = activatedPlugins
        /\ IF Len(activatedPlugins) = 0
           THEN /\ piRun' = <<>>
                /\ piTimers' = {}
                /\ piExecuted' = <<>>
                /\ piPc' = "done"
                /\ piReturn' = EmptyReturn
           ELSE Continue(executePlugins(activatedPlugins, st, syncThrow))
  /\ UNCHANGED <<plugCfg, plugins>>
  /\ UNCHANGED nonPlugVars

\* The promise of plugin.execute settles for the plugin at index k: it resolves
\* with a result of the plugin (a success or a failure of its own) or rejects.
HandlerSettle(k, outcome) ==
  /\ piPc = "exec"
  /\ k \in 1..Len(piRun)
  /\ piRun[k].status = "pending"
  /\ LET id == piSelected[k]
         caught == CatchExecution(id)
         settled == CASE outcome = "ok" -> Settled(Resolved(id, TRUE), "resolved")
                      [] outcome = "fail" -> Settled(Resolved(id, FALSE), "resolved")
                      [] OTHER -> Settled(caught.result, "rejected")
     IN Continue(AfterSettled([piRun EXCEPT ![k] = settled], piTimers, k,
                              outcome = "reject" /\ caught.rethrown))
  /\ UNCHANGED <<plugCfg, plugins, piSelected, piCall, plugOps>>
  /\ UNCHANGED nonPlugVars

\* The timer of createTimeoutPromise fires for the plugin at index k: the race
\* is rejected if the plugin is still pending, and otherwise nothing happens.
TimerFire(k) ==
  /\ k \in piTimers
  /\ IF piPc = "exec" /\ piRun[k].status = "pending" /\ TimeoutRejects
     THEN LET caught == CatchExecution(piSelected[k])
          IN Continue(AfterSettled([piRun EXCEPT ![k] = Settled(caught.result, "timeout")],
                                   piTimers \ {k}, k, caught.rethrown))
     ELSE /\ piTimers' = piTimers \ {k}
          /\ UNCHANGED <<piPc, piRun, piExecuted, piReturn>>
  /\ UNCHANGED <<plugCfg, plugins, piSelected, piCall, plugOps>>
  /\ UNCHANGED nonPlugVars

PlugNext ==
  \/ \E p \in Registrable : registerPlugin(p)
  \/ \E id \in PluginNames : unregisterPlugin(id)
  \/ \E id \in PluginNames, enabled \in BOOLEAN : setPluginEnabled(id, enabled)
  \/ \E act \in Activations, syncThrow \in SUBSET PluginNames :
       ProcessInput(act, syncThrow)
  \/ \E k \in 1..MaxSelect, outcome \in {"ok", "fail", "reject"} :
       HandlerSettle(k, outcome)
  \/ \E k \in 1..MaxSelect : TimerFire(k)

(***************************************************************************)
(* Completion client: LLMService.generateCompletion.                       *)
(***************************************************************************)
DefaultMaxRetries == 3
BackoffUnit == 1000

\* The callers that can have a generateCompletion call in progress at once
\* (two requests of the message endpoint).
Callers == {"c1", "c2"}

\* The errors an attempt can fail with: an AxiosError with the status of the
\* response, an AxiosError without a response (the request timed out:
\* ECONNABORTED), and an error that is not an AxiosError, with its code.
HttpError(status) == [axios |-> TRUE, status |-> status, code |-> "ERR_BAD_RESPONSE"]
AxiosTimeout == [axios |-> TRUE, status |-> 0, code |-> "ECONNABORTED"]
SocketTimeout == [axios |-> FALSE, status |-> 0, code |-> "ETIMEDOUT"]
NoError == [axios |-> FALSE, status |-> 0, code |-> "none"]

AttemptErrors ==
  {HttpError(s) : s \in {429, 503, 501, 401}} \cup {AxiosTimeout, SocketTimeout}

shouldRetry(error) ==
  IF error.axios
  THEN error.status \in {429, 500, 502, 503, 504}
  ELSE error.code \in {"ECONNRESET", "ETIMEDOUT"}

NoLlmCall == [pc |-> "idle", retries |-> 0, delays |-> <<>>, error |-> NoError]

LlmInit ==
  /\ llmCfg \in [maxRetries : {Absent, Some(0), Some(1), Some(2)}]
  /\ retryCount = 0
  /\ llmCalls = [c \in Callers |-> NoLlmCall]
  /\ llmStarted = 0

LlmIdle ==
  /\ llmCfg = [maxRetries |-> Absent]
  /\ retryCount = 0
  /\ llmCalls = [c \in Callers |-> NoLlmCall]
  /\ llmStarted = 0

\* generateCompletion(request) up to the await of the provider call.
GenerateCompletion(c) ==
  /\ llmCalls[c].pc \in {"idle", "returned", "threw"}
  /\ llmStarted < MaxLlmCalls
  /\ llmStarted' = llmStarted + 1
  /\ llmCalls' = [llmCalls EXCEPT ![c] = [NoLlmCall EXCEPT !.pc = "attempt"]]
  /\ UNCHANGED <<llmCfg, retryCount>>
  /\ UNCHANGED nonLlmVars

\* The provider call resolves: the response is returned.
AttemptSucceeds(c) ==
  /\ llmCalls[c].pc = "attempt"
  /\ llmCalls' = [llmCalls EXCEPT ![c].pc = "returned"]
  /\ UNCHANGED <<llmCfg, retryCount, llmStarted>>
  /\ UNCHANGED nonLlmVars

\* The provider call rejects: the catch clause (lines 99-118) either counts a
\* retry and waits 1000 * retryCount ms, or resets the counter and rethrows.
AttemptFails(c, error) ==
  /\ llmCalls[c].pc = "attempt"
  /\ IF shouldRetry(error)
        /\ retryCount < OrDefault(llmCfg.maxRetries, DefaultMaxRetries)
     THEN /\ retryCount' = retryCount + 1
          /\ llmCalls' = [llmCalls EXCEPT
                            ![c].pc = "delay",
                            ![c].retries = @ + 1,
                            ![c].delays = Append(@, BackoffUnit * (retryCount + 1))]
     ELSE /\ retryCount' = 0
          /\ llmCalls' = [llmCalls EXCEPT ![c].pc = "threw", ![c].error = error]
  /\ UNCHANGED <<llmCfg, llmStarted>>
  /\ UNCHANGED nonLlmVars

\* The delay has elapsed: generateCompletion calls itself for the retry.
DelayElapsed(c) ==
  /\ llmCalls[c].pc = "delay"
  /\ llmCalls' = [llmCalls EXCEPT ![c].pc = "attempt"]
  /\ UNCHANGED <<llmCfg, retryCount, llmStarted>>
  /\ UNCHANGED nonLlmVars

LlmNext ==
  \/ \E c \in Callers : GenerateCompletion(c)
  \/ \E c \in Callers : AttemptSucceeds(c)
  \/ \E c \in Callers, error \in AttemptErrors : AttemptFails(c, error)
  \/ \E c \in Callers : DelayElapsed(c)

(***************************************************************************)
(* Orchestrator: AgentService.processMessage behind POST /api/agent/message.*)
(***************************************************************************)
AgentMaxMessages == 100
AgentSummaryThreshold == 10
PromptChunks == 3

\* The bodies a client posts: the message is missing, not a string, the
\* empty string or a text; the session id is given or left out.
Bodies == [message : {"missing", "number", "empty", "text"},
           session_id : {"s1", "none"}]

\* session_id || `session_${Date.now()}_...`: a fresh id when none is given.
SessionIdOf(body) == IF body.session_id = "none" THEN "s2" ELSE body.session_id

\* What processInput resolves with (it never rejects).
DispatchReturns ==
  {EmptyReturn,
   Return(<<Settled(Resolved("math", TRUE), "resolved")>>),
   Return(<<Settled(CatchExecution("math").result, "threw")>>)}

\* What retrieveContent resolves with: the SimilarityResults of the ranking.
Retrieved(n) ==
  [i \in 1..n |-> [chunk |-> [id |-> generateChunkId("a.md", i - 1),
                             text |-> <<n, i>>,
                             embedding |-> ChunkEmbedding(<<n, i>>),
                             source |-> [filename |-> "a.md"]],
                   similarity_score |-> 80,
                   rank |-> i]]

RetrievalOutcomes ==
  {[threw |-> TRUE, retrieved_chunks |-> <<>>]}
    \cup {[threw |-> FALSE, retrieved_chunks |-> Retrieved(n)] : n \in 0..MaxRetrieved}

\* The property lookup obj.field of JavaScript: Absent stands for undefined.
Prop(obj, field) == IF field \in DOMAIN obj THEN Some(obj[field]) ELSE Absent

\* The forEach of buildSystemPrompt over retrieved_chunks.slice(0, 3): reading
\* chunk.source.filename throws when chunk.source is undefined.
RECURSIVE PromptContext(_)
PromptContext(cs) ==
  IF cs = <<>> THEN [threw |-> FALSE, entries |-> <<>>]
  ELSE LET source == Prop(Head(cs), "source")
           rest == PromptContext(Tail(cs))
       IN IF source = Absent \/ rest.threw THEN [threw |-> TRUE, entries |-> <<>>]
          ELSE [threw |-> FALSE,
                entries |-> <<[filename |-> Prop(Get(source), "filename"),
                               content |-> Prop(Head(cs), "content")]>>
                              \o rest.entries]

\* buildSystemPrompt(ragResults, pluginResults): the knowledge base context
\* and the lines of the successful plugins.
buildSystemPrompt(retrieved, dispatched) ==
  LET context == PromptContext(SubSeq(retrieved, 1, Min(PromptChunks, Len(retrieved))))
      executed == dispatched.plugins_executed
      ok == {i \in 1..Len(executed) : executed[i].success}
  IN [threw |-> context.threw,
      prompt |-> [context |-> context.entries,
                  tools |-> {executed[i].plugin_id : i \in ok}]]

\* The map over retrieved_chunks of steps 7 and 8.
RECURSIVE SourcesUsed(_)
SourcesUsed(cs) ==
  IF cs = <<>> THEN [threw |-> FALSE, entries |-> <<>>]
  ELSE LET source == Prop(Head(cs), "source")
           similarity == Prop(Head(cs), "similarity")
           rest == SourcesUsed(Tail(cs))
       IN IF source = Absent \/ rest.threw THEN [threw |-> TRUE, entries |-> <<>>]
          ELSE [threw |-> FALSE,
                entries |-> <<[filename |-> Prop(Get(source), "filename"),
                               relevance_score |->
                                 IF similarity = Absent THEN 0 ELSE Get(similarity),
                               chunk |-> Prop(Head(cs), "content")]>>
                              \o rest.entries]

PluginsUsed(dispatched) ==
  [i \in 1..Len(dispatched.plugins_executed) |->
     dispatched.plugins_executed[i].plugin_id]

\* The response bodies.
NoBody == [success |-> "absent", error |-> "absent", code |-> "absent",
           message |-> "absent", response |-> "absent",
           plugins_used |-> <<>>, sources_used |-> <<>>]
\* The body of the endpoint's 400: { error: 'Message is required ...' }.
ValidationBody == [NoBody EXCEPT !.error = "Message is required and must be a string"]
\* The value of processMessage's catch clause.
ProcessingError ==
  [NoBody EXCEPT !.success = "false", !.code = "PROCESSING_ERROR",
                 !.message = "Failed to process message"]
SuccessBody(dispatched, sources) ==
  [NoBody EXCEPT !.success = "true", !.response = "reply",
                 !.plugins_used = PluginsUsed(dispatched),
                 !.sources_used = sources]

NoHttp == [status |-> 0, body |-> NoBody]
NoRequest == [message |-> "missing", session_id |-> "none"]

\* A processMessage that skipped its addMessage calls.
SessionsAfterAdd_Skipped(sid, role, content) == sessions

\* The session map after addMessage(sid, role, content).
SessionsAfterAdd(sid, role, content) ==
  [sessions EXCEPT ![sid] =
     Some(manageSessionSize(Pushed(sid, role, content), sessionSummaries[sid]).messages)]
SummariesAfterAdd(sid, role, content) ==
  [sessionSummaries EXCEPT ![sid] =
     manageSessionSize(Pushed(sid, role, content), sessionSummaries[sid]).summary]

AgentInit ==
  /\ agPc = "idle"
  /\ agReq = NoRequest
  /\ agLlm = "ok"
  /\ agDispatched = EmptyReturn
  /\ agRetrieved = Absent
  /\ agPrompt = Absent
  /\ agStages = <<>>
  /\ httpResponse = NoHttp
  /\ agCalls = 0

AgentIdle == AgentInit

\* The memory the orchestrator constructs.
AgentMemInit ==
  /\ memCfg = [maxMessagesPerSession |-> AgentMaxMessages,
               summaryThreshold |-> AgentSummaryThreshold]
  /\ sessions = NoSessions
  /\ sessionSummaries = NoSessions
  /\ stale = {}

agentFrame == <<chunkVars, ragVars, plugVars, llmVars, memCfg, stale>>

\* The catch clause of processMessage and the res.json of the endpoint.
Fail(stages) ==
  /\ agPc' = "done"
  /\ agStages' = stages
  /\ httpResponse' = [status |-> 200, body |-> ProcessingError]

\* POST /api/agent/message: the validation of the endpoint, and processMessage
\* up to its wait for the plugin dispatcher.
HttpPost(body, llm) ==
  /\ agPc \in {"idle", "done"}
  /\ agCalls < MaxRequests
  /\ agCalls' = agCalls + 1
  /\ agReq' = body
  /\ agLlm' = llm
  /\ agDispatched' = EmptyReturn
  /\ agRetrieved' = Absent
  /\ agPrompt' = Absent
  /\ IF body.message # "text"
     THEN /\ agPc' = "done"
          /\ agStages' = <<>>
          /\ httpResponse' = [status |-> 400, body |-> ValidationBody]
     ELSE /\ agPc' = "plugins"
          /\ agStages' = <<"history", "plugins">>
          /\ httpResponse' = NoHttp
  /\ UNCHANGED <<sessions, sessionSummaries>>
  /\ UNCHANGED agentFrame

\* processInput resolves: retrieveContent is called.
DispatchReturn(dispatched) ==
  /\ agPc = "plugins"
  /\ agDispatched' = dispatched
  /\ agPc' = "retrieval"
  /\ agStages' = Append(agStages, "retrieval")
  /\ UNCHANGED <<agReq, agLlm, agRetrieved, agPrompt, httpResponse, agCalls,
                 sessions, sessionSummaries>>
  /\ UNCHANGED agentFrame

\* retrieveContent settles: on a result the user message is stored, the
\* system prompt is built and the completion is requested.
RetrievalReturn(outcome) ==
  /\ agPc = "retrieval"
  /\ UNCHANGED <<agReq, agLlm, agDispatched, agCalls>>
  /\ UNCHANGED agentFrame
  /\ IF outcome.threw
     THEN /\ Fail(agStages)
          /\ UNCHANGED <<agRetrieved, agPrompt, sessions, sessionSummaries>>
     ELSE LET sid == SessionIdOf(agReq)
              built == buildSystemPrompt(outcome.retrieved_chunks, agDispatched)
          IN /\ agRetrieved' = Some(outcome.retrieved_chunks)
             /\ sessions' = SessionsAfterAdd(sid, "user", "topic")
             /\ sessionSummaries' = SummariesAfterAdd(sid, "user", "topic")
             /\ IF built.threw
                THEN /\ Fail(agStages \o <<"user_write", "prompt">>)
                     /\ UNCHANGED agPrompt
                ELSE /\ agPrompt' = Some(built.prompt)
                     /\ agPc' = "llm"
                     /\ agStages' = agStages \o <<"user_write", "prompt", "llm">>
                     /\ UNCHANGED httpResponse

\* generateCompletion settles: on a completion the assistant message is
\* stored and the response is built and sent.
CompletionReturn ==
  /\ agPc = "llm"
  /\ UNCHANGED <<agReq, agLlm, agDispatched, agRetrieved, agPrompt, agCalls>>
  /\ UNCHANGED agentFrame
  /\ LET sid == SessionIdOf(agReq)
         sources == SourcesUsed(Get(agRetrieved))
     IN IF agLlm = "throws" \/ sources.threw
        THEN /\ Fail(agStages)
             /\ UNCHANGED <<sessions, sessionSummaries>>
        ELSE /\ sessions' = SessionsAfterAdd(sid, "assistant", "topic")
             /\ sessionSummaries' = SummariesAfterAdd(sid, "assistant", "topic")
             /\ agPc' = "done"
             /\ agStages' = Append(agStages, "assistant_write")
             /\ httpResponse' = [status |-> 200,
                                 body |-> SuccessBody(agDispatched, sources.entries)]

\* DELETE of a session: AgentService.clearSession.
AgentClearSession(sid) ==
  /\ sessions[sid] # Absent
  /\ sessions' = [sessions EXCEPT ![sid] = Absent]
  /\ sessionSummaries' = [sessionSummaries EXCEPT ![sid] = Absent]
  /\ UNCHANGED <<agPc, agReq, agLlm, agDispatched, agRetrieved, agPrompt, agStages,
                 httpResponse, agCalls>>
  /\ UNCHANGED agentFrame

AgentNext ==
  \/ \E body \in Bodies, llm \in {"ok", "throws"} : HttpPost(body, llm)
  \/ \E dispatched \in DispatchReturns : DispatchReturn(dispatched)
  \/ \E outcome \in RetrievalOutcomes : RetrievalReturn(outcome)
  \/ CompletionReturn
  \/ \E sid \in SessionIds : AgentClearSession(sid)

(***************************************************************************)
(* Specifications.                                                         *)
(***************************************************************************)
InitChunk == ChunkInit /\ MemIdle /\ RagIdle /\ PlugIdle /\ AgentIdle /\ LlmIdle
SpecChunk == InitChunk /\ [][ChunkNext]_vars

InitChunkConfig == ChunkConfigInit /\ MemIdle /\ RagIdle /\ PlugIdle /\ AgentIdle /\ LlmIdle
SpecChunkConfig == InitChunkConfig /\ [][ChunkConfigNext]_vars

\* The loop of chunkByFixedSize runs on: no step of it is postponed forever.
SpecChunkFair == InitChunk /\ [][ChunkNext]_vars /\ WF_vars(ChunkNext)

InitMem == MemInit /\ ChunkIdle /\ RagIdle /\ PlugIdle /\ AgentIdle /\ LlmIdle
SpecMem == InitMem /\ [][MemNext]_vars

InitRag == RagInit /\ ChunkIdle /\ MemIdle /\ PlugIdle /\ AgentIdle /\ LlmIdle
SpecRag == InitRag /\ [][RagNext]_vars

\* The service between its start and its first ingestion: the index is what
\* loadExistingData found.
RagStartupNext ==
  \/ InitializeCall
  \/ InitializeDone
  \/ \E ctx \in Contexts : RetrieveContent(ctx)
  \/ \E answer \in EmbedAnswers(<<QueryEmbedding(queryCtx.query)>>) :
       QueryEmbeddingReturn(answer)
SpecRagStartup == InitRag /\ [][RagStartupNext]_vars

InitRagQuery == RagQueryInit /\ ChunkIdle /\ MemIdle /\ PlugIdle /\ AgentIdle /\ LlmIdle
SpecRagQuery == InitRagQuery /\ [][RagQueryNext]_vars

\* The service ingesting batches, started on an empty data directory.
RagIngestInit ==
  /\ RagInit
  /\ diskChunks = Missing
  /\ diskDocs = Missing

InitRagIngest == RagIngestInit /\ ChunkIdle /\ MemIdle /\ PlugIdle /\ AgentIdle /\ LlmIdle

\* Its batches are of documents with content.
IngestBatches == {batch \in Batches : \A i \in 1..Len(batch) : batch[i].n >= 1}

RagIngestNext ==
  \/ \E batch \in IngestBatches : ProcessDocuments(batch)
  \/ \E answer \in EmbedAnswers(ChunkVectors(DocChunks(ingestDoc))) :
       EmbeddingsReturn(answer)
SpecRagIngest == InitRagIngest /\ [][RagIngestNext]_vars

\* The service in operation, ingesting a batch while it answers queries,
\* started on an empty data directory.
RagConcurrentInit ==
  /\ RagQueryInit
  /\ embeddedChunks = <<>>

InitRagConcurrent ==
  RagConcurrentInit /\ ChunkIdle /\ MemIdle /\ PlugIdle /\ AgentIdle /\ LlmIdle

\* Its batches are versions of one file and its queries carry no filter and
\* no threshold of their own.
ConcurrentBatches ==
  {batch \in Batches : \A i \in 1..Len(batch) : batch[i].filename = "a.md"}
ConcurrentContexts ==
  {ctx \in Contexts : ctx.filenames = {} /\ ctx.min_similarity_score = Absent}

RagConcurrentNext ==
  \/ \E batch \in ConcurrentBatches : ProcessDocuments(batch)
  \/ \E answer \in EmbedAnswers(ChunkVectors(DocChunks(ingestDoc))) :
       EmbeddingsReturn(answer)
  \/ \E ctx \in ConcurrentContexts : RetrieveContent(ctx)
  \/ \E answer \in EmbedAnswers(<<QueryEmbedding(queryCtx.query)>>) :
       QueryEmbeddingReturn(answer)
SpecRagConcurrent == InitRagConcurrent /\ [][RagConcurrentNext]_vars

InitPlug == PlugInit /\ ChunkIdle /\ MemIdle /\ RagIdle /\ AgentIdle /\ LlmIdle
SpecPlug == InitPlug /\ [][PlugNext]_vars

InitAgent == AgentInit /\ AgentMemInit /\ ChunkIdle /\ RagIdle /\ PlugIdle /\ LlmIdle
SpecAgent == InitAgent /\ [][AgentNext]_vars

InitLlm == LlmInit /\ ChunkIdle /\ MemIdle /\ RagIdle /\ PlugIdle /\ AgentIdle
SpecLlm == InitLlm /\ [][LlmNext]_vars

\* A timer that is armed fires: setTimeout callbacks are not postponed forever.
SpecPlugFair ==
  /\ InitPlug
  /\ [][PlugNext]_vars
  /\ WF_vars(\E k \in 1..MaxSelect : TimerFire(k))

(***************************************************************************)
(* C3: chunk(text, config) with the fixed_size strategy terminates and     *)
(* returns its chunks for every non-empty text and every configuration     *)
(* with 0 <= chunk_overlap < max_chunk_size.                               *)
(***************************************************************************)
C3_FixedSizeTerminates == <>(chunkPc = "done")

(***************************************************************************)
(* C2: the addMessage call that makes a session's live message count       *)
(* exceed maxMessagesPerSession triggers exactly one compaction, after     *)
(* which the live count equals summaryThreshold and a summary record       *)
(* exists, for every configuration.                                        *)
(***************************************************************************)
C2_CompactionLeavesThreshold ==
  [][\A sid \in SessionIds, role \in Roles, content \in Contents :
       (/\ addMessage(sid, role, content)
        /\ Len(Pushed(sid, role, content)) > memCfg.maxMessagesPerSession)
       => /\ manageSessionSize(Pushed(sid, role, content),
                               sessionSummaries[sid]).trimmed
          /\ Len(Get(sessions'[sid])) = memCfg.summaryThreshold
          /\ sessionSummaries'[sid] # Absent]_vars


(***************************************************************************)
(* C1: re-ingesting a filename replaces its prior chunks: after a document *)
(* is processed, the index holds for its filename exactly the chunks of    *)
(* this ingestion (one chunk at least), not the sum over its ingestions.   *)
(***************************************************************************)
C1_ReingestReplaces ==
  [][\A answer \in EmbedAnswers(ChunkVectors(DocChunks(ingestDoc))) :
       (/\ EmbeddingsReturn(answer)
        /\ ingestDoc.n >= 1
        /\ processDocument(embeddedChunks, documentsIndex, ingestDoc, answer).ok)
       => CountFile(embeddedChunks', ingestDoc.filename) = ingestDoc.n]_vars

(***************************************************************************)
(* C10: a query issued before initialize() has returned fails with         *)
(* NotInitialized and requests no embedding; a query issued after          *)
(* initialize() has returned never fails with NotInitialized.              *)
(***************************************************************************)
C10_NotInitializedOnlyBeforeInit ==
  /\ (lastQuery.status # "none" /\ ~lastQuery.initDone)
       => (lastQuery.status = "NotInitialized" /\ ~lastQuery.embedIssued)
  /\ lastQuery.initDone => lastQuery.status # "NotInitialized"

\* A query was refused while initialize() was loading the cache.
C10_Witness ==
  /\ lastQuery.status = "NotInitialized"
  /\ ~lastQuery.embedIssued
  /\ initPc = "loading"
  /\ embeddedChunks # <<>>


(***************************************************************************)
(* C6: a selected plugin whose execution exceeds plugin_timeout_ms yields  *)
(* a failure result whose error code is specific to timeouts: it differs   *)
(* from the code of the result made when a plugin throws or rejects.       *)
(***************************************************************************)
C6_TimeoutCodeDistinct ==
  \A i, j \in 1..Len(piRun) :
    (piRun[i].cause = "timeout" /\ piRun[j].cause \in {"threw", "rejected"})
      => /\ ~Get(piRun[i].result).success
         /\ Get(piRun[i].result).code # Get(piRun[j].result).code

(***************************************************************************)
(* C7: under fair firing of the timeout timers, a processInput call that   *)
(* waits for its plugins eventually returns, with one result per selected  *)
(* plugin, even when selected plugins never settle.                        *)
(***************************************************************************)
C7_ProcessInputReturns ==
  (piPc = "exec")
    ~> (piPc = "done" /\ Len(piReturn.plugins_executed) = Len(piSelected))

\* A call has returned although none of its two plugins ever settled.
C7_Witness ==
  /\ piPc = "done"
  /\ Len(piSelected) >= 2
  /\ Len(piReturn.plugins_executed) = Len(piSelected)
  /\ \A i \in 1..Len(piRun) : piRun[i].cause = "timeout"

(***************************************************************************)
(* C8: processInput never raises: a plugin whose shouldActivate throws is  *)
(* not selected, a plugin whose execute throws or rejects gets a failure   *)
(* result, the other selected plugins are still executed, and the call     *)
(* resolves with a result object holding one result per selected plugin.   *)
(***************************************************************************)
C8_NeverRaises ==
  /\ piPc \in {"idle", "exec", "done"}
  /\ \A i \in 1..Len(piSelected) : piSelected[i] \notin piCall.throwing
  /\ piPc = "done" =>
       /\ piExecuted = piSelected
       /\ Len(piReturn.plugins_executed) = Len(piSelected)
       /\ \A i \in 1..Len(piRun) :
            /\ piReturn.plugins_executed[i].plugin_id = piSelected[i]
            /\ piRun[i].cause \in {"threw", "rejected"}
                 => ~piReturn.plugins_executed[i].success

\* A sequential call has returned: an activation check threw, the first
\* selected plugin threw and the second one was executed and succeeded.
C8_Witness ==
  /\ piPc = "done"
  /\ plugCfg.execution_mode = "sequential"
  /\ piCall.throwing # {}
  /\ Len(piRun) = 2
  /\ piRun[1].cause = "threw"
  /\ piRun[2].cause = "resolved"
  /\ piReturn.plugins_executed[2].success
  /\ piReturn.execution_summary.failed_executions = 1

(***************************************************************************)
(* C9 as stated: for every registry and input, the plugins processInput    *)
(* executes are exactly the first max_plugins_per_request of the enabled   *)
(* plugins whose activation predicate is true, by descending priority and  *)
(* then registration order.                                                *)
(***************************************************************************)
C9_ExecutesFirstMax ==
  piPc = "done" => piExecuted = piCall.expected

(***************************************************************************)
(* C9 amended: when the plugin system is enabled, the plugins executed are *)
(* exactly the first max_plugins_per_request of the plugins that are       *)
(* enabled when processInput is called and whose activation predicate is   *)
(* true, by descending priority and then registration order; when the      *)
(* plugin system is disabled none is executed; a plugin that is disabled   *)
(* when processInput is called is never executed by the call.              *)
(***************************************************************************)
C9_ExecutesFirstMaxWhenEnabled ==
  LET expected == IF plugCfg.enabled THEN piCall.expected ELSE <<>>
  IN /\ Len(piExecuted) <= Len(expected)
     /\ piExecuted = SubSeq(expected, 1, Len(piExecuted))
     /\ piPc = "done" => piExecuted = expected
     /\ \A i \in 1..Len(piExecuted) : piExecuted[i] \notin piCall.disabled

\* Three plugins were activated, two of them with the priority of the math
\* plugin: the math plugin and the one registered after it were executed.
C9_Witness ==
  /\ piPc = "done"
  /\ plugCfg.enabled
  /\ Cardinality(piCall.activated) = 3
  /\ piExecuted = <<"math", "extra">>
  /\ piCall.expected = piExecuted


(***************************************************************************)
(* C4: every failure path of message processing answers with a structured  *)
(* object that says success = false and carries an error code and a        *)
(* message, the endpoint's rejection of a missing or non-string message    *)
(* included.                                                               *)
(***************************************************************************)
C4_FailuresAreStructured ==
  (agPc = "done" /\ httpResponse.body.success # "true")
    => /\ httpResponse.body.success = "false"
       /\ httpResponse.body.code # "absent"
       /\ httpResponse.body.message # "absent"

(***************************************************************************)
(* C5: when retrieveContent returns n >= 1 results and the completion      *)
(* provider answers, the request succeeds, the system prompt holds the     *)
(* text of the first min(n, 3) chunks labeled by filename, and             *)
(* sources_used has n entries with filename, score and chunk text.         *)
(***************************************************************************)
C5_RetrievedChunksReachReply ==
  (/\ agPc = "done"
   /\ agRetrieved # Absent
   /\ Len(Get(agRetrieved)) >= 1
   /\ agLlm = "ok")
    => LET retrieved == Get(agRetrieved)
           n == Len(retrieved)
           body == httpResponse.body
       IN /\ body.success = "true"
          /\ agPrompt # Absent
          /\ Get(agPrompt).context =
               [i \in 1..Min(n, PromptChunks) |->
                  [filename |-> Some(retrieved[i].chunk.source.filename),
                   content |-> Some(retrieved[i].chunk.text)]]
          /\ body.sources_used =
               [i \in 1..n |->
                  [filename |-> Some(retrieved[i].chunk.source.filename),
                   relevance_score |-> retrieved[i].similarity_score,
                   chunk |-> Some(retrieved[i].chunk.text)]]


\* C11: the filters of a query are applied after the cut to top_k: what a
\* query returns is the subsequence of the ranking the same query returns
\* without filters whose chunks satisfy the filters, so a chunk outside that
\* ranking is not returned even when it satisfies them.
QueryMin == OrDefault(queryCtx.min_similarity_score, ragCfg.minSimilarityScore)

SatisfiesFilters(r) ==
  queryCtx.filenames = {} \/ r.chunk.source.filename \in queryCtx.filenames

C11_FiltersAfterTopK ==
  [][(queryPc = "embedding" /\ lastQuery'.status = "ok")
       => LET unfiltered == findSimilarChunks(lastQuery'.embedding, embeddedChunks,
                                              queryCtx.top_k, QueryMin).results
          IN lastQuery'.results = SelectSeq(unfiltered, SatisfiesFilters)]_vars

\* A query for a.txt with top_k = 1 returned nothing although the index holds
\* a chunk of a.txt that reaches the threshold: it ranks second.
C11_Witness ==
  /\ queryPc = "idle"
  /\ lastQuery.status = "ok"
  /\ lastQuery.results = <<>>
  /\ queryCtx.top_k = 1
  /\ queryCtx.filenames = {"a.txt"}
  /\ Len(embeddedChunks) = 2
  /\ embeddedChunks[1].source.filename = "a.md"
  /\ embeddedChunks[2].source.filename = "a.txt"
  /\ LET first == cosineSimilarity(lastQuery.embedding, embeddedChunks[1].embedding)
         second == cosineSimilarity(lastQuery.embedding, embeddedChunks[2].embedding)
     IN /\ ~first.threw /\ ~second.threw
        /\ first.value > second.value
        /\ second.value >= QueryMin

\* C12: the ranking of a query without filters holds the chunks whose score
\* reaches the minimum, by descending score with ties in index order, cut to
\* top_k and ranked 1..n in that order; every query with top_k <= 0 fails, and
\* a query on an index without chunks returns the empty sequence.
Score(q, c) == cosineSimilarity(q, c.embedding)

Comparable(q, index) ==
  IsFinite(q) /\ \A i \in 1..Len(index) : Len(index[i].embedding) = Len(q)

TopKSimilar(q, index, k, min) ==
  LET eligible == {i \in 1..Len(index) : Score(q, index[i]).value >= min}
      Before(j, i) ==
        \/ Score(q, index[j]).value > Score(q, index[i]).value
        \/ Score(q, index[j]).value = Score(q, index[i]).value /\ j < i
      Position(i) == 1 + Cardinality({j \in eligible : Before(j, i)})
      At(p) == CHOOSE i \in eligible : Position(i) = p
  IN [p \in 1..Min(k, Cardinality(eligible)) |->
        [chunk |-> index[At(p)], similarity_score |-> Score(q, index[At(p)]).value,
         rank |-> p]]

QueryRanked ==
  /\ queryPc = "embedding"
  /\ queryPc' = "idle"
  /\ queryCtx.filenames = {}
  /\ lastQuery'.embedding # <<>>
  /\ lastQuery'.status # "EmbeddingError"
  /\ Comparable(lastQuery'.embedding, embeddedChunks)

C12_TopKSimilar ==
  [][QueryRanked
       => /\ queryCtx.top_k <= 0 => lastQuery'.status = "SearchError"
          /\ (queryCtx.top_k > 0 /\ embeddedChunks = <<>>)
               => (lastQuery'.status = "ok" /\ lastQuery'.results = <<>>)
          /\ queryCtx.top_k > 0
               => /\ lastQuery'.status = "ok"
                  /\ lastQuery'.results =
                       TopKSimilar(lastQuery'.embedding, embeddedChunks,
                                   queryCtx.top_k, QueryMin)]_vars

\* C13: the failure of one document of a batch does not abort the batch:
\* processDocuments does not raise, it reaches the end of the batch, every
\* document for which the provider answered is ingested with all its chunks,
\* and the index is written to the cache afterwards when caching is enabled.
Ingested(d) ==
  /\ documentsIndex[d.filename] # Absent
  /\ \A j \in 1..d.n :
       \E k \in 1..Len(embeddedChunks) :
         /\ embeddedChunks[k].id = generateChunkId(d.filename, j - 1)
         /\ embeddedChunks[k].text = <<d.n, j>>
         /\ embeddedChunks[k].embedding = ChunkEmbedding(<<d.n, j>>)
         /\ embeddedChunks[k].source.filename = d.filename

OwnVectors(index) ==
  \A k \in 1..Len(index) : index[k].embedding = ChunkEmbedding(index[k].text)

C14_CountMismatchAddsNothing ==
  [][\A answer \in EmbedAnswers(ChunkVectors(DocChunks(ingestDoc))) :
       (/\ EmbeddingsReturn(answer)
        /\ ~answer.threw
        /\ Len(answer.vectors) # ingestDoc.n)
         => /\ embeddedChunks' = embeddedChunks
            /\ documentsIndex' = documentsIndex
            /\ OwnVectors(embeddedChunks')]_vars

\* C15: the load at startup is best-effort: initialize completes and marks
\* the service initialized; with both cache files missing the index is empty,
\* and with either cache file corrupt or unreadable the index is in the empty
\* state, without chunks and without documents.
C15_StartupLoadBestEffort ==
  /\ [](initPc = "ready" => isInitialized)
  /\ [][(initPc = "new" /\ initPc' = "loading")
          => /\ (diskChunks.state = "missing" /\ diskDocs.state = "missing")
                  => (embeddedChunks' = <<>> /\ documentsIndex' = NoDocs)
             /\ (diskChunks.state = "corrupt" \/ diskDocs.state = "corrupt")
                  => (embeddedChunks' = <<>> /\ documentsIndex' = NoDocs)]_vars

\* C16: a query whose embedding is empty, holds a number that is not finite,
\* or has another dimension than a stored chunk vector fails as a whole
\* instead of returning a ranking, and leaves the index unchanged.
Unusable(q, index) ==
  \/ q = <<>>
  \/ ~IsFinite(q)
  \/ \E i \in 1..Len(index) : Len(index[i].embedding) # Len(q)

C16_BadQueryVectorFails ==
  [][\A answer \in QueryAnswers(queryCtx.query) :
       (/\ QueryEmbeddingReturn(answer)
        /\ ~answer.threw
        /\ Len(answer.vectors) = 1
        /\ Unusable(answer.vectors[1], embeddedChunks))
         => /\ lastQuery'.status \in {"EmbeddingError", "SearchError"}
            /\ embeddedChunks' = embeddedChunks]_vars

\* C17: with chunk_overlap = 0 the texts of the returned chunks, concatenated
\* in order, are the whitespace-cleaned input text, with and without the
\* preservation of sentence boundaries.
RECURSIVE Concatenated(_)
Concatenated(cs) ==
  IF cs = <<>> THEN <<>> ELSE Head(cs).text \o Concatenated(Tail(cs))

\* A text as cleanText leaves it: trimmed, and without a run of whitespace.
WhitespaceCleaned(t) ==
  /\ Trim(t) = t
  /\ \A i \in 1..(Len(t) - 1) : ~(IsSpace(t[i]) /\ IsSpace(t[i + 1]))

C17_ChunksConcatenateToText ==
  (chunkPc = "done" /\ chunkCfg.chunk_overlap = 0 /\ WhitespaceCleaned(text))
    => Concatenated(chunks) = text

\* C18: a chunking configuration with chunk_overlap >= max_chunk_size is
\* rejected when the retrieval service is constructed; it is never accepted
\* and then used to chunk a document.
C18_OverlapRejectedAtConstruction ==
  chunkCfg.chunk_overlap >= chunkCfg.max_chunk_size
    => chunkPc \in {"config", "rejected"}

\* C19: an attempt that fails with a rate-limit (429), server (5xx) or
\* timeout error is retried while the call has made fewer than maxRetries
\* retries; after maxRetries retries the error is propagated to the caller;
\* an error of another class is propagated without a retry.
RetryableClass(error) ==
  \/ error.status = 429
  \/ error.status \in 500..599
  \/ error.code \in {"ECONNABORTED", "ETIMEDOUT"}

ConfiguredRetries ==
  IF llmCfg.maxRetries = Absent THEN DefaultMaxRetries ELSE Get(llmCfg.maxRetries)

C19_RetriesBounded ==
  [][\A c \in Callers, error \in AttemptErrors :
       AttemptFails(c, error)
         => IF RetryableClass(error) /\ llmCalls[c].retries < ConfiguredRetries
            THEN llmCalls'[c].pc = "delay"
            ELSE /\ llmCalls'[c].pc = "threw"
                 /\ llmCalls'[c].error = error]_vars

\* C20: the backoff between the retries of one call is exponential: the delay
\* before a retry is at least twice the delay before the retry it follows.
C20_BackoffDoubles ==
  \A c \in Callers :
    \A n \in 1..(Len(llmCalls[c].delays) - 1) :
      llmCalls[c].delays[n + 1] >= 2 * llmCalls[c].delays[n]

\* C21: within one processMessage request the stages occur in the order
\* history read, plugin dispatch, retrieval query, user-message append, LLM
\* call, assistant-message append, each at most once; the LLM call is not
\* made before the user message is appended, and the assistant message is
\* appended only after the LLM call succeeded.
StageOrder ==
  <<"history", "plugins", "retrieval", "user_write", "prompt", "llm", "assistant_write">>

IsPrefix(s, t) == Len(s) <= Len(t) /\ s = SubSeq(t, 1, Len(s))

\* The step appends a message of the role to the live list of the session.
AppendsTo(sid, role) ==
  /\ sessions'[sid] # Absent
  /\ sessions'[sid] # sessions[sid]
  /\ Get(sessions'[sid]) # <<>>
  /\ Get(sessions'[sid])[Len(Get(sessions'[sid]))].role = role

C21_StagesInOrder ==
  /\ [](IsPrefix(agStages, StageOrder))
  /\ [][(agPc # "llm" /\ agPc' = "llm") => AppendsTo(SessionIdOf(agReq), "user")]_vars
  /\ [][\A sid \in SessionIds :
          AppendsTo(sid, "assistant")
            => /\ agPc = "llm"
               /\ agLlm = "ok"
               /\ sid = SessionIdOf(agReq)]_vars

C21_Witness ==
  /\ agPc = "done"
  /\ agStages = StageOrder
  /\ httpResponse.body.success = "true"
  /\ sessions[SessionIdOf(agReq)] # Absent

\* C22: in sequential mode the execute of a selected plugin starts only
\* after the plugin selected before it has settled or timed out; in parallel
\* mode every selected plugin is started before any is awaited and the call
\* returns only after every one has settled or timed out; in both modes the
\* results returned are in selection order, one per selected plugin.
Started(k) == piRun[k].status # "waiting"

C22_ExecutionModes ==
  /\ Len(piRun) = Len(piSelected)
  /\ piExecuted = [k \in 1..Len(piExecuted) |-> piSelected[k]]
  /\ \A k \in 1..Len(piRun) : Started(k) <=> k <= Len(piExecuted)
  /\ plugCfg.execution_mode = "sequential"
       => \A k \in 2..Len(piRun) : Started(k) => piRun[k - 1].status = "done"
  /\ (plugCfg.execution_mode = "parallel" /\ piPc = "exec")
       => \A k \in 1..Len(piRun) : Started(k)
  /\ (piPc = "done" /\ piSelected # <<>>)
       => /\ AllSettled(piRun)
          /\ PluginsUsed(piReturn) = piSelected

\* A sequential call whose second plugin started after the first timed out.
C22_Witness ==
  /\ plugCfg.execution_mode = "sequential"
  /\ Len(piSelected) = 2
  /\ piRun[1].cause = "timeout"
  /\ piRun[2].status = "pending"

\* C23: partial progress is not rolled back.  A request whose retrieval
\* query fails leaves the sessions as they were before the request: no step
\* of it appended a message.  A request whose prompt assembly fails has
\* appended its user message in the step that failed, and a request whose
\* LLM call fails leaves the sessions as its user write left them: the user
\* message stays and no assistant message is added.
RequestStep == agPc' # agPc \/ agCalls' # agCalls

Failed == agPc' = "done" /\ httpResponse'.body.code = "PROCESSING_ERROR"

C23_PartialProgressKept ==
  [][RequestStep =>
       LET sid == SessionIdOf(agReq)
           kept == sessions' = sessions /\ sessionSummaries' = sessionSummaries
       IN /\ agPc \in {"idle", "done", "plugins"} => kept
          /\ (agPc = "retrieval" /\ Failed /\ agRetrieved' = Absent) => kept
          /\ (agPc = "retrieval" /\ Failed /\ agRetrieved' # Absent)
               => /\ sessions'[sid] =
                       Some(Append(IF sessions[sid] = Absent THEN <<>>
                                   ELSE Get(sessions[sid]),
                                   [role |-> "user", content |-> "topic"]))
                  /\ \A other \in SessionIds \ {sid} : sessions'[other] = sessions[other]
          /\ (agPc = "llm" /\ Failed) => kept]_vars

\* A request failed in its prompt assembly and its user message is in the
\* session, with no assistant message.
C23_Witness ==
  /\ agPc = "done"
  /\ httpResponse.body.code = "PROCESSING_ERROR"
  /\ agRetrieved # Absent
  /\ agPrompt = Absent
  /\ sessions[SessionIdOf(agReq)] = Some(<<[role |-> "user", content |-> "topic"]>>)

\* C24: after every addMessage, importSession, clearSession, clearAllSessions
\* and TTL sweep, and for every configuration, the live message count of each
\* session is at most maxMessagesPerSession.
C24_LiveCountBounded ==
  \A sid \in SessionIds :
    sessions[sid] # Absent
      => Len(Get(sessions[sid])) <= memCfg.maxMessagesPerSession

\* C25: after a compaction the summary record of the session describes the
\* messages the compactions discarded: its message_count is the number of
\* messages this compaction removed from the live list, added to the count
\* of the summary the session had before.
C25_SummaryCountsDiscarded ==
  [][\A sid \in SessionIds, role \in Roles, content \in Contents :
       (/\ addMessage(sid, role, content)
        /\ manageSessionSize(Pushed(sid, role, content), sessionSummaries[sid]).trimmed)
       => LET discarded == Len(Pushed(sid, role, content)) - Len(Get(sessions'[sid]))
              before == IF sessionSummaries[sid] = Absent THEN 0
                        ELSE Get(sessionSummaries[sid]).message_count
          IN /\ sessionSummaries'[sid] # Absent
             /\ Get(sessionSummaries'[sid]).message_count = before + discarded]_vars

\* C26: the retry budget is per call: every generateCompletion call on an
\* instance starts with a retry count of 0, whatever the earlier calls did
\* and whatever calls are in flight, and an attempt of it that fails with an
\* error the client retries is retried while the call itself has made fewer
\* retries than the maxRetries the client reads from its configuration.
C26_RetryBudgetPerCall ==
  [][\A c \in Callers :
       /\ GenerateCompletion(c) => retryCount' = 0
       /\ \A error \in AttemptErrors :
            (/\ AttemptFails(c, error)
             /\ shouldRetry(error)
             /\ llmCalls[c].retries < OrDefault(llmCfg.maxRetries, DefaultMaxRetries))
            => llmCalls'[c].pc = "delay"]_vars

\* C27: after any sequence of ingest calls the chunk ids are unique across
\* the index: no two stored chunks share an id, the chunks of a re-ingested
\* filename and of filenames that differ only in their extension included.
C27_ChunkIdsUnique ==
  \A i, j \in 1..Len(embeddedChunks) :
    embeddedChunks[i].id = embeddedChunks[j].id => i = j

\* C28: the similarity threshold of a query is the min_similarity_score the
\* caller supplies whenever one is supplied, the value 0 included, and the
\* configured default only when the caller supplies none: a query with
\* min_similarity_score = 0 returns, within top_k, every chunk whose score is
\* at least 0.
CallerMin ==
  IF queryCtx.min_similarity_score = Absent THEN ragCfg.minSimilarityScore
  ELSE Get(queryCtx.min_similarity_score)

C28_CallerThresholdApplied ==
  [][(QueryRanked /\ queryCtx.top_k > 0 /\ lastQuery'.status = "ok")
       => lastQuery'.results =
            TopKSimilar(lastQuery'.embedding, embeddedChunks, queryCtx.top_k,
                        CallerMin)]_vars

\* C29: a request that was in flight when its session was cleared does not
\* bring the session back with half a turn: in every interleaving each
\* assistant message in a session's live list is preceded by the user
\* message of its request, and a session that is absent when
\* generateCompletion resolves stays absent.
C29_AssistantFollowsUser ==
  \A sid \in SessionIds :
    sessions[sid] # Absent
      => \A i \in 1..Len(Get(sessions[sid])) :
           Get(sessions[sid])[i].role = "assistant"
             => /\ i > 1
                /\ Get(sessions[sid])[i - 1].role = "user"

\* C30: a query interleaved with an ingestion observes, of each document
\* whose ingestion succeeds, none or all of the chunks: the index changes
\* only when an embedding call of the ingestion returns (or initialize loads
\* the cache), the return that makes a document succeed appends all of the
\* document's chunks at once, every chunk of the index is a complete record
\* (id, text, vector, source), and the chunks a query returns are chunks of
\* the index as it stands when the query's embedding returns.
WholeDocument(d) ==
  [i \in 1..d.n |-> [id |-> generateChunkId(d.filename, i - 1),
                     text |-> <<d.n, i>>,
                     embedding |-> ChunkEmbedding(<<d.n, i>>),
                     source |-> [filename |-> d.filename]]]

CompleteRecord(c) ==
  /\ DOMAIN c = {"id", "text", "embedding", "source"}
  /\ c.text # <<>>
  /\ c.embedding # <<>>
  /\ "filename" \in DOMAIN c.source

IngestReturn == ingestPc = "embedding" /\ ingestResults' # ingestResults

C30_QueriesSeeWholeDocuments ==
  /\ [](\A i \in 1..Len(embeddedChunks) : CompleteRecord(embeddedChunks[i]))
  /\ [][/\ (~IngestReturn /\ ragCalls'.init = ragCalls.init)
             => embeddedChunks' = embeddedChunks
        /\ (/\ IngestReturn
            /\ ingestResults'[Len(ingestResults) - Len(ingestQueue)].state = "ok")
             => embeddedChunks' = embeddedChunks \o WholeDocument(ingestDoc)
        /\ (queryPc = "embedding" /\ queryPc' = "idle")
             => \A k \in 1..Len(lastQuery'.results) :
                  \E i \in 1..Len(embeddedChunks) :
                    embeddedChunks[i] = lastQuery'.results[k].chunk]_vars

\* A query returned a chunk of a document of two chunks while the embedding
\* call of the next document of the batch was awaited.
C30_Witness ==
  /\ ingestPc = "embedding"
  /\ Len(ingestResults) = 2
  /\ ingestResults[1].state = "ok"
  /\ ingestResults[1].doc.n = 2
  /\ lastQuery.status = "ok"
  /\ Len(lastQuery.results) >= 1
  /\ lastQuery.results[1].chunk.text[1] = 2

====
